---------------------------- MODULE Spec2Model ----------------------------
(***************************************************************************)
(* Model of the survey cross-tabulation dashboard (src/app.py).            *)
(*                                                                         *)
(* One run of the script is modelled: the loaded dataset and the two       *)
(* widget values are the inputs, and the script's sections run in order:   *)
(*   FilterData -> DetermineResponseColumns -> PrecalculateGrandTotal      *)
(*   -> PdfDownload (generate_combined_ac_pdf) -> DisplayTables.           *)
(* A dataframe is a sequence of rows; a row is a function from column      *)
(* names to cells; a cell is a string, and a missing cell (NaN) is NA.     *)
(* Rows carry the columns the run reads: "AC Name", the selected question  *)
(* and the demographic columns present in the dataset.                     *)
(***************************************************************************)
EXTENDS Integers, Sequences, FiniteSets, TLC

\* ------------------------------------------------------------------------
\* Bounds of the model
\* ------------------------------------------------------------------------
MaxRows == 2

\* ------------------------------------------------------------------------
\* Cells and strings
\* ------------------------------------------------------------------------
\* A missing cell (pandas NaN / pd.NA).
NA == "<NA>"

KPCC == "Do you know who the KPCC President is?"
OtherQuestion == "Whom will you vote for?"
GenderCol == "What is your gender?"
AgeCol == "What is your age?"
ACCol == "AC Name"

\* Code points of the strings that occur in the model (Python compares str
\* values code point by code point).
Codes(s) ==
  CASE s = "A" -> <<65>>
    [] s = "B" -> <<66>>
    [] s = "F" -> <<70>>
    [] s = "M" -> <<77>>
    [] s = "Old" -> <<79, 108, 100>>
    [] s = "Maybe" -> <<77, 97, 121, 98, 101>>
    [] s = "No" -> <<78, 111>>
    [] s = "Yes" -> <<89, 101, 115>>
    [] s = "Not Answered" -> <<78, 111, 116, 32, 65, 110, 115, 119, 101, 114, 101, 100>>
    [] s = "Not Specified" -> <<78, 111, 116, 32, 83, 112, 101, 99, 105, 102, 105, 101, 100>>
    [] s = "All" -> <<65, 108, 108>>

RECURSIVE SeqLT(_, _)
SeqLT(a, b) ==
  IF b = <<>> THEN FALSE
  ELSE IF a = <<>> THEN TRUE
  ELSE IF Head(a) # Head(b) THEN Head(a) < Head(b)
  ELSE SeqLT(Tail(a), Tail(b))

\* Python's  a < b  on two str values.
StrLT(a, b) == SeqLT(Codes(a), Codes(b))

Range(s) == {s[i] : i \in 1..Len(s)}

\* list.sort / sorted() on a list of str: insertion into an ascending list.
RECURSIVE InsertSorted(_, _)
InsertSorted(x, s) ==
  IF s = <<>> THEN <<x>>
  ELSE IF StrLT(x, Head(s)) THEN <<x>> \o s
  ELSE <<Head(s)>> \o InsertSorted(x, Tail(s))

RECURSIVE SortStrings(_)
SortStrings(s) ==
  IF s = <<>> THEN <<>> ELSE InsertSorted(Head(s), SortStrings(Tail(s)))

\* sorted() raises TypeError when it has to compare a float (NaN) with a str.
SortedRaises(s) == NA \in Range(s) /\ Len(s) >= 2

\* Series.unique(): the distinct values in order of first appearance
\* (NaN is kept, once).
RECURSIVE Unique(_)
Unique(s) ==
  IF s = <<>> THEN <<>>
  ELSE LET init == Unique(SubSeq(s, 1, Len(s) - 1))
           x == s[Len(s)]
       IN IF x \in Range(init) THEN init ELSE Append(init, x)

\* df[col]: the column as a sequence of cells.
Column(df, col) == [i \in 1..Len(df) |-> df[i][col]]

\* Series.fillna(v).astype(str)
FillNa(series, v) == [i \in 1..Len(series) |-> IF series[i] = NA THEN v ELSE series[i]]

\* df[mask]: the rows whose index satisfies the mask, in order.
RECURSIVE SelectRows(_, _)
SelectRows(df, mask) ==
  IF df = <<>> THEN <<>>
  ELSE LET rest == SelectRows(Tail(df), [i \in 1..(Len(df) - 1) |-> mask[i + 1]])
       IN IF mask[1] THEN <<Head(df)>> \o rest ELSE rest

\* Series == value : NaN compares unequal to everything, itself included.
EqMask(series, v) == [i \in 1..Len(series) |-> series[i] # NA /\ v # NA /\ series[i] = v]

\* Series.isin(values): NaN matches a NaN among the values.
IsInMask(series, values) == [i \in 1..Len(series) |-> series[i] \in Range(values)]

\* Python's  x in list : a NaN of another identity is never found.
PyIn(x, list) == x # NA /\ x \in Range(list)

\* ", ".join(list); raises TypeError on a non-str item.
JoinRaises(list) == NA \in Range(list)

RECURSIVE Join(_)
Join(list) ==
  IF list = <<>> THEN ""
  ELSE IF Len(list) = 1 THEN list[1]
  ELSE list[1] \o ", " \o Join(Tail(list))

\* f"{count / base * 100:.2f}%" : the quotient in hundredths of a percent,
\* rounded to nearest, ties to even.
Hundredths(count, base) ==
  LET n == count * 10000
      q == n \div base
      r == n % base
  IN IF 2 * r > base THEN q + 1
     ELSE IF 2 * r < base THEN q
     ELSE IF q % 2 = 0 THEN q ELSE q + 1

TwoDigits(n) == IF n < 10 THEN "0" \o ToString(n) ELSE ToString(n)

FormatHundredths(h) == ToString(h \div 100) \o "." \o TwoDigits(h % 100) \o "%"

FormatPct(count, base) == FormatHundredths(Hundredths(count, base))


\* ------------------------------------------------------------------------
\* The dataset
\* ------------------------------------------------------------------------
\* Values of the geography column, of the selected question's column and of
\* the two demographic columns present in the dataset.
ACValues == {"A", "B"}
ResponseValues == {"Yes", "Maybe"}
GenderValues == {"F", "M"}
AgeValues == {"Old"}

Row(ac, resp, gender, age, question) ==
  [c \in {ACCol, question, GenderCol, AgeCol} |->
     IF c = ACCol THEN ac
     ELSE IF c = question THEN resp
     ELSE IF c = GenderCol THEN gender
     ELSE age]

\* Age is always filled in; the geography, the response and the gender may
\* be missing.
Rows(question) ==
  {Row(ac, resp, gender, age, question) :
     ac \in ACValues \cup {NA}, resp \in ResponseValues \cup {NA},
     gender \in GenderValues \cup {NA}, age \in AgeValues}

\* The non-empty datasets of at most MaxRows rows (an empty dataset stops
\* the script at its first test).
Datasets(question) == UNION {[1..n -> Rows(question)] : n \in 1..MaxRows}

\* survey_question_columns, restricted to the columns the datasets have.
survey_question_columns == <<KPCC, OtherQuestion>>

\* demographic_cols_for_tables after the columns absent from the dataset
\* are filtered out: display name and column name are the same string.
demographic_cols_for_tables == <<GenderCol, AgeCol>>

\* ac_options: "All" and then the sorted distinct geography values.
ac_options(df) == <<"All">> \o SortStrings(Unique(Column(df, ACCol)))

\* st.multiselect: any choice of distinct options, in the order chosen.
RECURSIVE Arrangements(_)
Arrangements(S) ==
  {<<>>} \cup UNION {{<<x>> \o t : t \in Arrangements(S \ {x})} : x \in S}

\* ------------------------------------------------------------------------
\* State
\* ------------------------------------------------------------------------
VARIABLES
  df_survey_original,        \* the loaded dataset
  selected_question,         \* value of the question selectbox
  ac_multiselect,            \* value of the geography multiselect
  pc,                        \* the script section that runs next
  selected_acs,              \* the script's variable selected_acs
  current_df,                \* rows left after the geography filter
  ac_header_display,         \* label of the interactive scope
  notice,                    \* st.info / st.warning shown by the filter
  response_columns_ordered,  \* vocabulary of the interactive scope
  grand_total_row_data,      \* Grand Total row of the interactive scope
  acs_for_pdf_report,        \* geography values handed to the export
  pdf_sections,              \* content of the exported document
  ui_tables                  \* tables shown on screen, in order

vars == <<df_survey_original, selected_question, ac_multiselect, pc,
          selected_acs, current_df, ac_header_display, notice,
          response_columns_ordered, grand_total_row_data,
          acs_for_pdf_report, pdf_sections, ui_tables>>

inputs == <<df_survey_original, selected_question, ac_multiselect>>

Init ==
  /\ selected_question \in Range(survey_question_columns)
  /\ df_survey_original \in Datasets(selected_question)
  /\ ac_multiselect \in
       IF SortedRaises(Unique(Column(df_survey_original, ACCol)))
       THEN {<<"All">>}
       ELSE Arrangements(Range(ac_options(df_survey_original)))
  /\ pc = "filter"
  /\ selected_acs = ac_multiselect
  /\ current_df = df_survey_original
  /\ ac_header_display = "All Constituencies"
  /\ notice = "none"
  /\ response_columns_ordered = <<>>
  /\ grand_total_row_data = <<>>
  /\ acs_for_pdf_report = <<>>
  /\ pdf_sections = <<>>
  /\ ui_tables = <<>>

\* ------------------------------------------------------------------------
\* Filtering Data based on AC
\* ------------------------------------------------------------------------
\* The script stops with an exception when ac_options cannot be sorted or
\* the header cannot be joined.
FilterRaises(df, sel) ==
  \/ SortedRaises(Unique(Column(df, ACCol)))
  \/ sel # <<>> /\ "All" \notin Range(sel) /\ JoinRaises(sel)

\* Variant: "All" chosen with other values does not collapse to "All".
FilteredDf_NoCollapse(df, sel) ==
  IF sel # <<>> /\ sel # <<"All">>
  THEN SelectRows(df, IsInMask(Column(df, ACCol), sel))
  ELSE df

FilteredDf(df, sel) ==
  IF sel # <<>> /\ "All" \notin Range(sel)
  THEN SelectRows(df, IsInMask(Column(df, ACCol), sel))
  ELSE df

HeaderDisplay(sel) ==
  IF sel # <<>>
  THEN IF "All" \in Range(sel) THEN "All Constituencies" ELSE Join(sel)
  ELSE "All Constituencies (Default - None Selected)"

FilterNotice(sel) ==
  IF sel # <<>>
  THEN IF "All" \in Range(sel) /\ Len(sel) > 1 THEN "info_all_selected" ELSE "none"
  ELSE "warning_none_selected"

FilterData ==
  /\ pc = "filter"
  /\ IF FilterRaises(df_survey_original, selected_acs)
     THEN /\ pc' = "error"
          /\ UNCHANGED <<selected_acs, current_df, ac_header_display, notice>>
     ELSE /\ pc' = "responses"
          /\ selected_acs' =
               IF "All" \in Range(selected_acs) /\ Len(selected_acs) > 1
               THEN <<"All">> ELSE selected_acs
          /\ current_df' = FilteredDf(df_survey_original, selected_acs)
          /\ ac_header_display' = HeaderDisplay(selected_acs)
          /\ notice' = FilterNotice(selected_acs)
  /\ UNCHANGED <<inputs, response_columns_ordered, grand_total_row_data,
                 acs_for_pdf_report, pdf_sections, ui_tables>>

\* ------------------------------------------------------------------------
\* Determine Response Columns for the selected question
\* ------------------------------------------------------------------------
\* Variant: the responses are left in order of first appearance.
ResponseColumnsOrdered_Unsorted(df, question) ==
  LET unique_responses_in_data == Unique(FillNa(Column(df, question), "Not Answered"))
  IN IF question = KPCC
     THEN IF "Not Answered" \in Range(unique_responses_in_data)
          THEN <<"No", "Yes", "Not Answered">>
          ELSE <<"No", "Yes">>
     ELSE unique_responses_in_data

ResponseColumnsOrdered(df, question) ==
  LET unique_responses_in_data == Unique(FillNa(Column(df, question), "Not Answered"))
  IN IF question = KPCC
     THEN IF "Not Answered" \in Range(unique_responses_in_data)
          THEN <<"No", "Yes", "Not Answered">>
          ELSE <<"No", "Yes">>
     ELSE SortStrings(unique_responses_in_data)

DetermineResponseColumns ==
  /\ pc = "responses"
  /\ response_columns_ordered' = ResponseColumnsOrdered(current_df, selected_question)
  /\ pc' = "grand_total"
  /\ UNCHANGED <<inputs, selected_acs, current_df, ac_header_display, notice,
                 grand_total_row_data, acs_for_pdf_report, pdf_sections, ui_tables>>

\* ------------------------------------------------------------------------
\* Pre-calculate Grand Total row data
\* ------------------------------------------------------------------------
PctCol(resp) == resp \o " %"

\* Series.value_counts().get(resp, 0)
ValueCount(series, resp) == Cardinality({i \in 1..Len(series) : series[i] = resp})

\* Variant: the shares are taken over the answered rows only.
GrandTotalRowData_AnsweredBase(df, question, responses) ==
  LET series == FillNa(Column(df, question), "Not Answered")
      answered == Len(df) - ValueCount(series, "Not Answered")
  IN [k \in {"Total Number"} \cup {PctCol(r) : r \in Range(responses)} |->
        IF k = "Total Number" THEN Len(df)
        ELSE LET resp == CHOOSE r \in Range(responses) : PctCol(r) = k
             IN IF answered > 0
                THEN FormatPct(IF resp = "Not Answered" THEN 0
                               ELSE ValueCount(series, resp), answered)
                ELSE "0.00%"]

\* The dict  {"Total Number": n, "<resp> %": "<p>%", ...}  as a function of
\* its keys.
GrandTotalRowData(df, question, responses) ==
  LET grand_total_base_count == Len(df)
      question_responses_series == FillNa(Column(df, question), "Not Answered")
  IN [k \in {"Total Number"} \cup {PctCol(r) : r \in Range(responses)} |->
        IF k = "Total Number" THEN grand_total_base_count
        ELSE LET resp == CHOOSE r \in Range(responses) : PctCol(r) = k
                 count == ValueCount(question_responses_series, resp)
             IN IF df # <<>>
                THEN IF grand_total_base_count > 0
                     THEN FormatPct(count, grand_total_base_count)
                     ELSE "0.00%"
                ELSE "0.00%"]

PrecalculateGrandTotal ==
  /\ pc = "grand_total"
  /\ grand_total_row_data' =
       GrandTotalRowData(current_df, selected_question, response_columns_ordered)
  /\ pc' = "pdf"
  /\ UNCHANGED <<inputs, selected_acs, current_df, ac_header_display, notice,
                 response_columns_ordered, acs_for_pdf_report, pdf_sections, ui_tables>>

\* ------------------------------------------------------------------------
\* pandas helpers of the cross-tabulation
\* ------------------------------------------------------------------------
RECURSIVE SumSeq(_)
SumSeq(s) == IF s = <<>> THEN 0 ELSE Head(s) + SumSeq(Tail(s))

\* df.columns of a dataframe whose rows are filters of the loaded dataset.
DfColumns == DOMAIN df_survey_original[1]

\* pd.crosstab(index, columns): one row per distinct index value and one
\* column per distinct column value, both sorted, holding the pair counts.
Crosstab(index_series, column_series) ==
  LET idx == SortStrings(Unique(index_series))
      cols == SortStrings(Unique(column_series))
  IN [index |-> idx,
      columns |-> cols,
      count |-> [g \in Range(idx) |-> [r \in Range(cols) |->
                   Cardinality({i \in 1..Len(index_series) :
                                  index_series[i] = g /\ column_series[i] = r})]]]

\* count / total.replace(0, pd.NA) * 100  followed by the display format
\*   f"{x:.2f}%" if pd.notnull(x) and isinstance(x, (int, float)) else x :
\* a missing quotient stays missing.
PercentageCell(count, total) ==
  IF total = 0 THEN NA ELSE FormatPct(count, total)

\* ------------------------------------------------------------------------
\* generate_combined_ac_pdf
\* ------------------------------------------------------------------------
\* Variant: the section inherits the vocabulary of the interactive scope.
PdfResponseColumns_FromUi(ac_specific_df, question, ui_response_columns_ordered) ==
  ui_response_columns_ordered

\* Step 2: the response columns of one AC.
PdfResponseColumns(ac_specific_df, question, ui_response_columns_ordered) ==
  LET unique_responses_in_ac_data ==
        Unique(FillNa(Column(ac_specific_df, question), "Not Answered"))
      current ==
        IF question = KPCC
        THEN IF "Not Answered" \in Range(unique_responses_in_ac_data)
             THEN <<"No", "Yes", "Not Answered">>
             ELSE <<"No", "Yes">>
        ELSE SortStrings(unique_responses_in_ac_data)
  IN IF current = <<>> THEN ui_response_columns_ordered ELSE current

\* Step 3: the Grand Total row of one AC.
PdfGrandTotalRowData(ac_specific_df, question, responses) ==
  LET ac_grand_total_base_count == Len(ac_specific_df)
      ac_question_responses_series ==
        FillNa(Column(ac_specific_df, question), "Not Answered")
  IN [k \in {"Total Number"} \cup {PctCol(r) : r \in Range(responses)} |->
        IF k = "Total Number" THEN ac_grand_total_base_count
        ELSE LET resp == CHOOSE r \in Range(responses) : PctCol(r) = k
                 count == ValueCount(ac_question_responses_series, resp)
             IN IF ac_grand_total_base_count > 0
                THEN FormatPct(count, ac_grand_total_base_count)
                ELSE "0.00%"]

\* Step 4, the try block. The count of one response in one demographic
\* group: a response column the crosstab lacks is added with zeros.
PdfCount(crosstab_df, g, resp) ==
  IF resp \in Range(crosstab_df.columns) THEN crosstab_df.count[g][resp] ELSE 0

\* crosstab_df["Total Number"]: the sum of the response columns kept.
PdfTotalNumber(crosstab_df, g, responses) ==
  SumSeq([i \in 1..Len(responses) |-> PdfCount(crosstab_df, g, responses[i])])

PdfDisplayColsFinalOrder(demo, responses) ==
  <<demo, "Total Number">> \o [i \in 1..Len(responses) |-> PctCol(responses[i])]

\* Variant: the percentages are shares of the whole table, not of the row.
PdfCategoryRow_ShareOfTable(crosstab_df, g, responses) ==
  <<g, PdfTotalNumber(crosstab_df, g, responses)>> \o
  [i \in 1..Len(responses) |->
     PercentageCell(PdfCount(crosstab_df, g, responses[i]),
                    SumSeq([n \in 1..Len(crosstab_df.index) |->
                              PdfTotalNumber(crosstab_df, crosstab_df.index[n], responses)]))]

\* One row of table_df_final before the Grand Total row is appended.
PdfCategoryRow(crosstab_df, g, responses) ==
  <<g, PdfTotalNumber(crosstab_df, g, responses)>> \o
  [i \in 1..Len(responses) |->
     PercentageCell(PdfCount(crosstab_df, g, responses[i]),
                    PdfTotalNumber(crosstab_df, g, responses))]

\* grand_total_df_for_table: the AC's Grand Total dict laid out on the
\* table's columns, pd.NA where the dict has no entry.
PdfGrandTotalRow(columns, demo, ac_grand_total_row_data) ==
  [j \in 1..Len(columns) |->
     IF columns[j] = demo THEN "Grand Total"
     ELSE IF columns[j] \in DOMAIN ac_grand_total_row_data
          THEN ac_grand_total_row_data[columns[j]] ELSE NA]

\* pd.concat([table_df_final, grand_total_df_for_table])
PdfConcat(category_rows, grand_total_row) == category_rows \o <<grand_total_row>>

\* The table of one demographic column of one AC.
PdfTable(ac_specific_df, question, demo, responses, ac_grand_total_row_data) ==
  LET crosstab_df ==
        Crosstab(FillNa(Column(ac_specific_df, demo), "Not Specified"),
                 FillNa(Column(ac_specific_df, question), "Not Answered"))
      display_cols_final_order == PdfDisplayColsFinalOrder(demo, responses)
  IN [columns |-> display_cols_final_order,
      rows |-> PdfConcat(
                 [n \in 1..Len(crosstab_df.index) |->
                    PdfCategoryRow(crosstab_df, crosstab_df.index[n], responses)],
                 PdfGrandTotalRow(display_cols_final_order, demo,
                                  ac_grand_total_row_data))]

\* Step 4: the (title, table) pairs of one AC.
PdfTablesForAc(ac_name, ac_specific_df, question, demographic_cols_config, responses, ac_grand_total_row_data) ==
  [d \in 1..Len(demographic_cols_config) |->
     LET demo == demographic_cols_config[d]
     IN IF demo \notin DfColumns
        THEN [title |-> demo \o " - Data Missing",
              table |-> [columns |-> <<"Status">>, rows |-> <<<<"column not found">>>>]]
        ELSE IF ac_specific_df = <<>>
        THEN [title |-> demo,
              table |-> [columns |-> <<"Status">>,
                         rows |-> <<<<"No data for this demographic group.">>>>]]
        ELSE [title |-> demo,
              table |-> PdfTable(ac_specific_df, question, demo, responses,
                                 ac_grand_total_row_data)]]

\* Variant: an AC without rows goes through the table steps like any other.
PdfSection_NoPlaceholder(df_full_data, ac_name, question, demographic_cols_config, ui_response_columns_ordered) ==
  LET ac_specific_df ==
        SelectRows(df_full_data, EqMask(Column(df_full_data, ACCol), ac_name))
      current_ac_response_columns_ordered ==
        PdfResponseColumns(ac_specific_df, question, ui_response_columns_ordered)
      tables_for_this_ac_pdf ==
        PdfTablesForAc(ac_name, ac_specific_df, question, demographic_cols_config,
                       current_ac_response_columns_ordered,
                       PdfGrandTotalRowData(ac_specific_df, question,
                                            current_ac_response_columns_ordered))
  IN [ac_name |-> ac_name, kind |-> "tables",
      responses |-> current_ac_response_columns_ordered,
      tables |-> tables_for_this_ac_pdf]

\* The body of the loop over list_of_acs_to_process: the section of one AC
\* (its response columns are kept beside its tables).
PdfSection(df_full_data, ac_name, question, demographic_cols_config, ui_response_columns_ordered) ==
  LET ac_specific_df ==
        SelectRows(df_full_data, EqMask(Column(df_full_data, ACCol), ac_name))
      current_ac_response_columns_ordered ==
        PdfResponseColumns(ac_specific_df, question, ui_response_columns_ordered)
      ac_grand_total_row_data ==
        PdfGrandTotalRowData(ac_specific_df, question, current_ac_response_columns_ordered)
      tables_for_this_ac_pdf ==
        PdfTablesForAc(ac_name, ac_specific_df, question, demographic_cols_config,
                       current_ac_response_columns_ordered, ac_grand_total_row_data)
  IN IF ac_specific_df = <<>>
     THEN [ac_name |-> ac_name, kind |-> "no_data", responses |-> <<>>, tables |-> <<>>]
     ELSE IF tables_for_this_ac_pdf # <<>>
     THEN [ac_name |-> ac_name, kind |-> "tables",
           responses |-> current_ac_response_columns_ordered,
           tables |-> tables_for_this_ac_pdf]
     ELSE [ac_name |-> ac_name, kind |-> "no_tables",
           responses |-> current_ac_response_columns_ordered, tables |-> <<>>]

\* Variant: the sections are put in ascending order of their AC.
GenerateCombinedAcPdf_Sorted(df_full_data, list_of_acs_to_process, question, demographic_cols_config, ui_response_columns_ordered, original_grand_total_row_data_template) ==
  IF list_of_acs_to_process = <<>>
  THEN <<[ac_name |-> NA, kind |-> "no_acs", responses |-> <<>>, tables |-> <<>>]>>
  ELSE LET sorted == SortStrings(list_of_acs_to_process)
       IN [n \in 1..Len(sorted) |->
             PdfSection(df_full_data, sorted[n], question,
                        demographic_cols_config, ui_response_columns_ordered)]

\* The document: one page saying that there is nothing to report, or one
\* section per AC of the list, in the order of the list.
GenerateCombinedAcPdf(df_full_data, list_of_acs_to_process, question, demographic_cols_config, ui_response_columns_ordered, original_grand_total_row_data_template) ==
  IF list_of_acs_to_process = <<>>
  THEN <<[ac_name |-> NA, kind |-> "no_acs", responses |-> <<>>, tables |-> <<>>]>>
  ELSE [n \in 1..Len(list_of_acs_to_process) |->
          PdfSection(df_full_data, list_of_acs_to_process[n], question,
                     demographic_cols_config, ui_response_columns_ordered)]

\* ------------------------------------------------------------------------
\* PDF Download Button
\* ------------------------------------------------------------------------
\* Variant: the export list ignores the selection.
AcsForPdfReport_IgnoresSelection(df, sel) ==
  IF ACCol \in DfColumns THEN SortStrings(Unique(Column(df, ACCol))) ELSE <<>>

AcsForPdfReport(df, sel) ==
  IF ACCol \in DfColumns
  THEN LET all_unique_acs == SortStrings(Unique(Column(df, ACCol)))
       IN IF sel = <<>> \/ "All" \in Range(sel)
          THEN all_unique_acs
          ELSE SelectSeq(sel, LAMBDA ac : PyIn(ac, all_unique_acs) /\ ac # "All")
  ELSE <<>>

PdfDownload ==
  /\ pc = "pdf"
  /\ acs_for_pdf_report' = AcsForPdfReport(df_survey_original, selected_acs)
  /\ pdf_sections' =
       GenerateCombinedAcPdf(df_survey_original, acs_for_pdf_report', selected_question,
                             demographic_cols_for_tables, response_columns_ordered,
                             grand_total_row_data)
  /\ pc' = "tables"
  /\ UNCHANGED <<inputs, selected_acs, current_df, ac_header_display, notice,
                 response_columns_ordered, grand_total_row_data, ui_tables>>

\* ------------------------------------------------------------------------
\* Generate and Display Cross-Tabulation Tables
\* ------------------------------------------------------------------------
\* The try block. The count of one response in one demographic group: a
\* response column the crosstab lacks is added with zeros.
UiCount(crosstab_df, g, resp) ==
  IF resp \in Range(crosstab_df.columns) THEN crosstab_df.count[g][resp] ELSE 0

\* crosstab_df["Total Number"]: the sum of the response columns kept.
UiTotalNumber(crosstab_df, g, responses) ==
  SumSeq([i \in 1..Len(responses) |-> UiCount(crosstab_df, g, responses[i])])

\* Variant: the percentage columns keep the crosstab's sorted column order.
UiDisplayColsFinalOrder_Sorted(demo, responses) ==
  <<demo, "Total Number">> \o
  LET sorted == SortStrings(responses)
  IN [i \in 1..Len(sorted) |-> PctCol(sorted[i])]

UiDisplayColsFinalOrder(demo, responses) ==
  <<demo, "Total Number">> \o [i \in 1..Len(responses) |-> PctCol(responses[i])]

\* One row of table_df_final before the Grand Total row is appended.
UiCategoryRow(crosstab_df, g, responses) ==
  <<g, UiTotalNumber(crosstab_df, g, responses)>> \o
  [i \in 1..Len(responses) |->
     PercentageCell(UiCount(crosstab_df, g, responses[i]),
                    UiTotalNumber(crosstab_df, g, responses))]

\* grand_total_df_for_table: the pre-calculated Grand Total dict laid out
\* on the table's columns, pd.NA where the dict has no entry.
UiGrandTotalRow(columns, demo, grand_total) ==
  [j \in 1..Len(columns) |->
     IF columns[j] = demo THEN "Grand Total"
     ELSE IF columns[j] \in DOMAIN grand_total THEN grand_total[columns[j]] ELSE NA]

\* Variant: the Grand Total row is put first.
UiConcat_Prepend(category_rows, grand_total_row) == <<grand_total_row>> \o category_rows

\* pd.concat([table_df_final, grand_total_df_for_table])
UiConcat(category_rows, grand_total_row) == category_rows \o <<grand_total_row>>

\* The table of one demographic column of the interactive scope.
UiTable(df, question, demo, responses, grand_total) ==
  LET crosstab_df ==
        Crosstab(FillNa(Column(df, demo), "Not Specified"),
                 FillNa(Column(df, question), "Not Answered"))
      display_cols_final_order == UiDisplayColsFinalOrder(demo, responses)
  IN [columns |-> display_cols_final_order,
      rows |-> UiConcat(
                 [n \in 1..Len(crosstab_df.index) |->
                    UiCategoryRow(crosstab_df, crosstab_df.index[n], responses)],
                 UiGrandTotalRow(display_cols_final_order, demo, grand_total))]

\* The loop over the demographic columns: the tables put on screen, in order
\* (a missing column or an empty scope shows a message and no table).
RECURSIVE UiTables(_, _, _, _, _)
UiTables(df, question, demographic_cols, responses, grand_total) ==
  IF demographic_cols = <<>> THEN <<>>
  ELSE LET demo == Head(demographic_cols)
           rest == UiTables(df, question, Tail(demographic_cols), responses, grand_total)
       IN IF demo \notin DfColumns THEN rest
          ELSE IF df = <<>> THEN rest
          ELSE <<[title |-> demo,
                  table |-> UiTable(df, question, demo, responses, grand_total)]>> \o rest

DisplayTables ==
  /\ pc = "tables"
  /\ ui_tables' = UiTables(current_df, selected_question, demographic_cols_for_tables,
                           response_columns_ordered, grand_total_row_data)
  /\ pc' = "done"
  /\ UNCHANGED <<inputs, selected_acs, current_df, ac_header_display, notice,
                 response_columns_ordered, grand_total_row_data,
                 acs_for_pdf_report, pdf_sections>>

\* ------------------------------------------------------------------------
\* Specification
\* ------------------------------------------------------------------------
Next ==
  \/ FilterData
  \/ DetermineResponseColumns
  \/ PrecalculateGrandTotal
  \/ PdfDownload
  \/ DisplayTables

Spec == Init /\ [][Next]_vars

\* ------------------------------------------------------------------------
\* Properties: vocabulary of the statements below
\* ------------------------------------------------------------------------
Exported == pc \in {"tables", "done"}
Displayed == pc = "done"

\* The selection asks for the whole dataset.
SelectsAll == ac_multiselect = <<>> \/ "All" \in Range(ac_multiselect)

\* The cells of the geography column of the full dataset.
GeographyCells == {df_survey_original[i][ACCol] : i \in 1..Len(df_survey_original)}

\* The rows of the full dataset whose geography is g.
RowsOfGeography(g) == SelectSeq(df_survey_original, LAMBDA row : row[ACCol] = g)

\* A group label / response label of a cell.
GroupOf(cell) == IF cell = NA THEN "Not Specified" ELSE cell
ResponseOf(cell) == IF cell = NA THEN "Not Answered" ELSE cell

\* Every cross-tab table produced, with the scope and the vocabulary it was
\* made for: the tables on screen and the tables of the exported sections.
ScreenTables ==
  IF Displayed
  THEN {[scope |-> current_df, responses |-> response_columns_ordered,
         demo |-> ui_tables[n].title, table |-> ui_tables[n].table] :
          n \in 1..Len(ui_tables)}
  ELSE {}

ExportTables ==
  IF Exported
  THEN UNION {{[scope |-> RowsOfGeography(pdf_sections[k].ac_name),
                responses |-> pdf_sections[k].responses,
                demo |-> pdf_sections[k].tables[n].title,
                table |-> pdf_sections[k].tables[n].table] :
                 n \in 1..Len(pdf_sections[k].tables)} :
              k \in {j \in 1..Len(pdf_sections) : pdf_sections[j].kind = "tables"}}
  ELSE {}

AllTables == ScreenTables \cup ExportTables

\* The demographic-group rows of a table: all rows but the last.
GroupRows(table) == SubSeq(table.rows, 1, Len(table.rows) - 1)
LastRow(table) == table.rows[Len(table.rows)]

\* ------------------------------------------------------------------------
\* C1
\* ------------------------------------------------------------------------
\* C1 as stated: whatever the interactive selection, the list of geography
\* values handed to the export is every distinct geography value of the
\* full dataset.
C1_ExportCoversEveryGeography ==
  Exported => Range(acs_for_pdf_report) = GeographyCells

\* C1 as amended: the list handed to the export is every distinct geography
\* value of the full dataset (each once) when the selection is empty or
\* contains "All"; when the selection names specific values, the list is
\* exactly the selected values in the order selected.
C1_ExportListFollowsSelection ==
  Exported =>
    IF SelectsAll
    THEN /\ Range(acs_for_pdf_report) = GeographyCells
         /\ Len(acs_for_pdf_report) = Cardinality(GeographyCells)
    ELSE acs_for_pdf_report = ac_multiselect

\* A run with the filter restricted to "A" while the dataset also has "B":
\* the export holds the section of "A" only.
C1_Witness ==
  /\ Displayed
  /\ ac_multiselect = <<"A">>
  /\ "B" \in GeographyCells
  /\ acs_for_pdf_report = <<"A">>
  /\ Len(pdf_sections) = 1

\* ------------------------------------------------------------------------
\* C2
\* ------------------------------------------------------------------------
\* C2: in every cross-tab table, a demographic-group row whose Total Number
\* is 0 has "0.00%" in every percentage column.
C2_ZeroTotalRowsShowZeroPercent ==
  \A t \in AllTables :
    \A n \in 1..Len(GroupRows(t.table)) :
      LET row == t.table.rows[n]
      IN row[2] = 0 => \A j \in 3..Len(row) : row[j] = "0.00%"

\* ------------------------------------------------------------------------
\* C3
\* ------------------------------------------------------------------------
\* C3: the Total Number of every demographic-group row is the number of
\* rows of the scope whose demographic value (missing read as
\* "Not Specified") is that group.
C3_TotalNumberIsGroupSize ==
  \A t \in AllTables :
    \A n \in 1..Len(GroupRows(t.table)) :
      LET row == t.table.rows[n]
      IN row[2] = Cardinality({i \in 1..Len(t.scope) :
                                 GroupOf(t.scope[i][t.demo]) = row[1]})

\* ------------------------------------------------------------------------
\* C4
\* ------------------------------------------------------------------------
Abs(x) == IF x < 0 THEN -x ELSE x

\* The renderings of 100 * count / base to two decimals: the hundredths
\* nearest to the quotient, "0.00%" for an empty base.
RenderedShares(count, base) ==
  IF base = 0 THEN {"0.00%"}
  ELSE LET q == (10000 * count) \div base
       IN {FormatHundredths(h) : h \in {k \in {q, q + 1} :
                                          2 * Abs(k * base - 10000 * count) <= base}}

\* The number of rows of the scope whose response (missing read as
\* "Not Answered") is resp.
ScopeCount(scope, resp) ==
  Cardinality({i \in 1..Len(scope) : ResponseOf(scope[i][selected_question]) = resp})

\* The scope of the example: 6 "Yes", 3 "No" and 1 missing answer to the
\* distinguished question.
ExampleScope ==
  [i \in 1..10 |->
     Row("A", IF i <= 6 THEN "Yes" ELSE IF i <= 9 THEN "No" ELSE NA,
         IF i % 2 = 0 THEN "F" ELSE "M", "Old", KPCC)]

ExampleGrandTotal == <<"Grand Total", 10, "30.00%", "60.00%", "10.00%">>

ExampleHolds ==
  LET ui_v == ResponseColumnsOrdered(ExampleScope, KPCC)
      pdf_v == PdfResponseColumns(ExampleScope, KPCC, <<>>)
  IN /\ ui_v = <<"No", "Yes", "Not Answered">>
     /\ pdf_v = <<"No", "Yes", "Not Answered">>
     /\ \A demo \in Range(demographic_cols_for_tables) :
          /\ LastRow(UiTable(ExampleScope, KPCC, demo, ui_v,
                             GrandTotalRowData(ExampleScope, KPCC, ui_v)))
               = ExampleGrandTotal
          /\ LastRow(PdfTable(ExampleScope, KPCC, demo, pdf_v,
                              PdfGrandTotalRowData(ExampleScope, KPCC, pdf_v)))
               = ExampleGrandTotal

\* C4: in every table, the Grand Total row has Total Number equal to the
\* row count of the scope and, for each vocabulary entry, the share of the
\* scope's rows with that response (missing read as "Not Answered") rendered
\* with two decimals and "%"; the row does not depend on the demographic
\* column, and the 10-row example gives 10, 30.00%, 60.00%, 10.00%.
C4_GrandTotalIsScopeShare ==
  /\ ExampleHolds
  /\ \A t \in AllTables :
       LET gt == LastRow(t.table)
       IN /\ gt[2] = Len(t.scope)
          /\ Len(gt) = 2 + Len(t.responses)
          /\ \A i \in 1..Len(t.responses) :
               gt[2 + i] \in RenderedShares(ScopeCount(t.scope, t.responses[i]),
                                            Len(t.scope))

\* Two rows on screen, one "Yes" and one unanswered, for the distinguished
\* question, while the sections of the export have one row each.
C4_Witness ==
  /\ Displayed
  /\ selected_question = KPCC
  /\ GeographyCells = {"A", "B"}
  /\ \E t \in ScreenTables :
       LastRow(t.table) = <<"Grand Total", 2, "0.00%", "50.00%", "50.00%">>
  /\ \E t \in ExportTables : LastRow(t.table)[2] = 1

\* ------------------------------------------------------------------------
\* C5
\* ------------------------------------------------------------------------
ObservedResponses(scope) ==
  {ResponseOf(scope[i][selected_question]) : i \in 1..Len(scope)}

VocabularyOf(scope, v) ==
  IF selected_question = KPCC
  THEN v = IF "Not Answered" \in ObservedResponses(scope)
           THEN <<"No", "Yes", "Not Answered">> ELSE <<"No", "Yes">>
  ELSE /\ Range(v) = ObservedResponses(scope)
       /\ \A i, j \in 1..Len(v) : i < j => StrLT(v[i], v[j])

\* C5: whatever the order of the rows, the vocabulary of a scope is
\* ["No", "Yes"] plus "Not Answered" exactly when a missing answer occurs,
\* for the distinguished question, and the distinct observed responses in
\* ascending order, without duplicates, for any other question.
C5_VocabularyOrdered ==
  /\ pc \in {"grand_total", "pdf", "tables", "done"} =>
       VocabularyOf(current_df, response_columns_ordered)
  /\ Exported =>
       \A k \in 1..Len(pdf_sections) :
         pdf_sections[k].kind = "tables" =>
           VocabularyOf(RowsOfGeography(pdf_sections[k].ac_name),
                        pdf_sections[k].responses)

\* Another question whose answers arrive as "Yes" and then a missing one:
\* the vocabulary puts "Not Answered" first.
C5_Witness ==
  /\ Displayed
  /\ selected_question = OtherQuestion
  /\ Len(df_survey_original) = 2
  /\ df_survey_original[1][OtherQuestion] = "Yes"
  /\ df_survey_original[2][OtherQuestion] = NA
  /\ response_columns_ordered = <<"Not Answered", "Yes">>

\* ------------------------------------------------------------------------
\* C6
\* ------------------------------------------------------------------------
\* C6: when the selection is exactly one geography value g, the tables on
\* screen are, in order and cell by cell, the tables of the exported
\* section of g.
C6_ScreenEqualsExportedSection ==
  (Displayed /\ Len(ac_multiselect) = 1 /\ ~SelectsAll) =>
    /\ Len(pdf_sections) = 1
    /\ pdf_sections[1].kind = "tables"
    /\ pdf_sections[1].ac_name = ac_multiselect[1]
    /\ pdf_sections[1].tables = ui_tables

\* "B" alone is selected in a dataset that also has "A", and both
\* demographic tables of the one row of "B" are on screen.
C6_Witness ==
  /\ Displayed
  /\ ac_multiselect = <<"B">>
  /\ "A" \in GeographyCells
  /\ Len(ui_tables) = 2
  /\ Len(current_df) = 1
  /\ Len(ui_tables[1].table.rows) = 2

\* ------------------------------------------------------------------------
\* C7
\* ------------------------------------------------------------------------
RECURSIVE CommaJoined(_)
CommaJoined(s) ==
  IF Len(s) = 1 THEN s[1]
  ELSE CommaJoined(SubSeq(s, 1, Len(s) - 1)) \o ", " \o s[Len(s)]

Filtered == pc \in {"responses", "grand_total", "pdf", "tables", "done"}

\* The tables the whole dataset gives.
TablesOfWholeDataset ==
  LET v == ResponseColumnsOrdered(df_survey_original, selected_question)
  IN UiTables(df_survey_original, selected_question, demographic_cols_for_tables, v,
              GrandTotalRowData(df_survey_original, selected_question, v))

\* C7: an empty selection and a selection containing "All" (alone or with
\* specific values) tabulate the whole dataset and show its tables; any
\* other selection tabulates exactly the rows whose geography is selected,
\* under the label made of the selected values joined by ", ".
C7_SelectionDecidesScope ==
  Filtered =>
    IF SelectsAll
    THEN /\ current_df = df_survey_original
         /\ Displayed => ui_tables = TablesOfWholeDataset
    ELSE /\ current_df = SelectSeq(df_survey_original,
                                   LAMBDA row : row[ACCol] \in Range(ac_multiselect))
         /\ ac_header_display = CommaJoined(ac_multiselect)

\* "All" selected together with "A" in a dataset that also has "B".
C7_Witness ==
  /\ Displayed
  /\ ac_multiselect = <<"All", "A">>
  /\ "B" \in GeographyCells
  /\ current_df = df_survey_original
  /\ notice = "info_all_selected"

\* ------------------------------------------------------------------------
\* C8
\* ------------------------------------------------------------------------
\* C8: the columns of every table are the demographic label, "Total Number"
\* and one "<response> %" column per vocabulary entry, in vocabulary order,
\* each once; no count column surfaces and every row has one cell per column.
C8_ColumnsFollowVocabulary ==
  \A t \in AllTables :
    LET cols == t.table.columns
    IN /\ cols = <<t.demo, "Total Number">> \o
                 [i \in 1..Len(t.responses) |-> t.responses[i] \o " %"]
       /\ \A i, j \in 1..Len(cols) : i # j => cols[i] # cols[j]
       /\ Range(cols) \cap Range(t.responses) = {}
       /\ \A n \in 1..Len(t.table.rows) : Len(t.table.rows[n]) = Len(cols)

\* A table of the distinguished question in a scope where nobody answered
\* "No" and somebody did not answer: the "No %" column is there, third.
C8_Witness ==
  /\ Displayed
  /\ selected_question = KPCC
  /\ "No" \notin ObservedResponses(current_df)
  /\ \E t \in ScreenTables :
       /\ t.table.columns =
            <<GenderCol, "Total Number", "No %", "Yes %", "Not Answered %">>
       /\ \A n \in 1..Len(t.table.rows) : t.table.rows[n][3] \in {"0.00%", NA}

\* ------------------------------------------------------------------------
\* C9
\* ------------------------------------------------------------------------
GroupsOf(scope, demo) == {GroupOf(scope[i][demo]) : i \in 1..Len(scope)}

\* C9: every table is its group rows, one per group of the scope, followed
\* by exactly one row labelled "Grand Total", the last; that row has the
\* same Total Number and percentages in every table of the same scope.
C9_OneGrandTotalRowLast ==
  \A t \in AllTables :
    /\ LastRow(t.table)[1] = "Grand Total"
    /\ \A n \in 1..Len(GroupRows(t.table)) : t.table.rows[n][1] # "Grand Total"
    /\ {t.table.rows[n][1] : n \in 1..Len(GroupRows(t.table))} = GroupsOf(t.scope, t.demo)
    /\ Len(t.table.rows) = Cardinality(GroupsOf(t.scope, t.demo)) + 1
    /\ \A u \in AllTables :
         (u.scope = t.scope /\ u.responses = t.responses) =>
           Tail(LastRow(u.table)) = Tail(LastRow(t.table))

\* Two tables on screen for one scope, with different numbers of group
\* rows, ending in the same Grand Total row.
C9_Witness ==
  /\ Displayed
  /\ Len(ui_tables) = 2
  /\ Len(ui_tables[1].table.rows) = 3
  /\ Len(ui_tables[2].table.rows) = 2
  /\ Tail(LastRow(ui_tables[1].table)) = Tail(LastRow(ui_tables[2].table))
  /\ LastRow(ui_tables[1].table)[2] = 2

\* ------------------------------------------------------------------------
\* C10
\* ------------------------------------------------------------------------
\* C10: the exported section of a geography value g is the section computed
\* from the rows of g alone and the question, with nothing taken from the
\* interactive scope: it is the same under every selection that exports g.
C10_SectionIndependentOfSelection ==
  Exported =>
    \A k \in 1..Len(pdf_sections) :
      pdf_sections[k].kind # "no_acs" =>
        pdf_sections[k] =
          PdfSection(RowsOfGeography(pdf_sections[k].ac_name), pdf_sections[k].ac_name,
                     selected_question, demographic_cols_for_tables, <<"Unrelated">>)

\* Both geography values are selected, and the vocabulary of one section
\* is not the vocabulary of the interactive scope.
C10_Witness ==
  /\ Exported
  /\ ac_multiselect = <<"A", "B">>
  /\ Len(pdf_sections) = 2
  /\ \E k \in 1..2 : pdf_sections[k].responses # response_columns_ordered

\* ------------------------------------------------------------------------
\* C11
\* ------------------------------------------------------------------------
\* The geography values of the sections of the exported document, in order.
SectionNames == [k \in 1..Len(pdf_sections) |-> pdf_sections[k].ac_name]

Ascending(names) == \A i, j \in 1..Len(names) : i < j => StrLT(names[i], names[j])

\* C11 as stated: under every selection the sections of the exported
\* document are in ascending order of their geography values.
C11_SectionsInSortOrder ==
  (Exported /\ acs_for_pdf_report # <<>>) => Ascending(SectionNames)

\* C11 as amended: the document has one section per geography value handed
\* to the export, in the order of that list: ascending order when the
\* selection is empty or contains "All", the order in which the values were
\* selected otherwise.
C11_SectionsFollowExportList ==
  (Exported /\ acs_for_pdf_report # <<>>) =>
    /\ SectionNames = acs_for_pdf_report
    /\ IF SelectsAll THEN Ascending(SectionNames) ELSE SectionNames = ac_multiselect

\* "B" was selected before "A": the section of "B" comes first.
C11_Witness ==
  /\ Displayed
  /\ ac_multiselect = <<"B", "A">>
  /\ SectionNames = <<"B", "A">>
  /\ pdf_sections[1].kind = "tables"
  /\ pdf_sections[2].kind = "tables"

\* ------------------------------------------------------------------------
\* C12
\* ------------------------------------------------------------------------
\* The rows kept for the section of g: a missing geography value equals no
\* cell, not even a missing one.
SectionScope(g) == IF g = NA THEN <<>> ELSE RowsOfGeography(g)

\* A table degraded to all-zero content: its last row is the Grand Total
\* row with Total Number 0 and "0.00%" in every percentage column.
AllZeroTable(table) ==
  /\ Len(table.rows) >= 1
  /\ LastRow(table)[1] = "Grand Total"
  /\ LastRow(table)[2] = 0
  /\ \A j \in 3..Len(LastRow(table)) : LastRow(table)[j] = "0.00%"

ZeroTablesForEveryDimension(tables) ==
  /\ Len(tables) = Len(demographic_cols_for_tables)
  /\ \A n \in 1..Len(tables) :
       /\ tables[n].title = demographic_cols_for_tables[n]
       /\ AllZeroTable(tables[n].table)

C13_GroupTotalsSumToGrandTotal ==
  \A t \in AllTables :
    SumSeq([n \in 1..Len(GroupRows(t.table)) |-> t.table.rows[n][2]])
      = LastRow(t.table)[2]

\* ------------------------------------------------------------------------
\* C14
\* ------------------------------------------------------------------------
\* The Total Number of the Grand Total row of a section (0 for a section
\* without tables).
SectionTotal(section) ==
  IF section.kind = "tables" THEN LastRow(section.tables[1].table)[2] ELSE 0

\* The sections whose row scope holds row i of the dataset.
SectionsHolding(i) ==
  {k \in 1..Len(pdf_sections) :
     /\ df_survey_original[i][ACCol] # NA
     /\ pdf_sections[k].ac_name = df_survey_original[i][ACCol]}

\* C14: a full export (selection empty or containing "All") completes
\* without error, also when some rows have a missing geography; every row
\* of the dataset is in the scope of exactly one section, and the Grand
\* Total Total Numbers of the sections sum to the row count of the dataset.
C14_FullExportPartitionsDataset ==
  SelectsAll =>
    /\ pc # "error"
    /\ Exported =>
         /\ \A i \in 1..Len(df_survey_original) : Cardinality(SectionsHolding(i)) = 1
         /\ SumSeq([k \in 1..Len(pdf_sections) |-> SectionTotal(pdf_sections[k])])
              = Len(df_survey_original)

=============================================================================
